---- MODULE Spec2Model ----
(***************************************************************************)
(* ConvolutionAware initializer (keras_contrib/initializers/convaware.py). *)
(*                                                                         *)
(* The state is the configuration of one initializer instance (eps_std,    *)
(* seed), the host framework's image data format, the process-wide random  *)
(* generator np.random, the outcome of the last __call__ while the caller  *)
(* holds it (ret), and the outcome of the last direct _create_basis call   *)
(* (bas).  A call is one step: the initializer is synchronous.  The caller *)
(* either calls again for the shape it holds or releases the array first;  *)
(* other code may draw from or seed the generator between calls.           *)
(*                                                                         *)
(* Arrays are records [shape, data]: data holds the elements in row-major  *)
(* order, and At reads the element at a 0-based index tuple.  Numbers are  *)
(* integers; a quotient is a record [num, den].                            *)
(* The generator is a cyclic stream of RngPeriod integers: a draw of n     *)
(* scalars at state r reads stream positions r .. r+n-1 and leaves the     *)
(* generator at r+n.  The entries of the singular vectors and the weights  *)
(* of the inverse transform are reals the model does not compute; each is  *)
(* represented by an integer that is a fixed function of its inputs, and   *)
(* every basis entry carries the block, row and column of u it comes from. *)
(***************************************************************************)
EXTENDS Integers, Sequences, FiniteSets, TLC

VARIABLES eps_std, seed, image_data_format, rng, ret, bas

vars == <<eps_std, seed, image_data_format, rng, ret, bas>>

\* ---------------------------------------------------------------- bounds
MaxSide == 3
MaxRank == 6
MaxElems == 6
RngPeriod == 4
MaxCount == 5
MaxBasisDim == 4

\* ------------------------------------------------------------- constants
NoSeed == -1
SeedValues == {0, 1}
\* eps_std: 0, or 1 for a positive standard deviation (the unit of the noise)
EpsValues == {0, 1}
DataFormats == {"channels_last", "channels_first"}

\* ------------------------------------------------------------ arithmetic
RECURSIVE Prod(_)
Prod(s) == IF s = <<>> THEN 1 ELSE Head(s) * Prod(Tail(s))

RECURSIVE MaxOf(_)
MaxOf(s) ==
    IF s = <<>> THEN 0
    ELSE LET m == MaxOf(Tail(s)) IN IF Head(s) > m THEN Head(s) ELSE m

Rat(n, d) == [num |-> n, den |-> d]
RatEq(a, b) == a.num * b.den = b.num * a.den
RatDiv(a, b) == Rat(a.num * b.den, a.den * b.num)
RatMul(a, b) == Rat(a.num * b.num, a.den * b.den)

\* ---------------------------------------------------------------- arrays
\* np.array(...): the elements, materialised
NpArray(s) == s \o <<>>

Indices(shape) ==
    {idx \in [1..Len(shape) -> 0..(MaxOf(shape) - 1)] :
        \A k \in 1..Len(shape) : idx[k] < shape[k]}

RECURSIVE FlatIndex(_, _)
FlatIndex(idx, shape) ==
    IF idx = <<>> THEN 0
    ELSE Head(idx) * Prod(Tail(shape)) + FlatIndex(Tail(idx), Tail(shape))

RECURSIVE Unflatten(_, _)
Unflatten(q, shape) ==
    IF shape = <<>> THEN <<>>
    ELSE <<q \div Prod(Tail(shape))>>
         \o Unflatten(q % Prod(Tail(shape)), Tail(shape))

At(arr, idx) == arr.data[FlatIndex(idx, arr.shape) + 1]

RECURSIVE SumSeq(_, _)
SumSeq(s, k) == IF k > Len(s) THEN 0 ELSE s[k] + SumSeq(s, k + 1)

RECURSIVE SumSquares(_, _)
SumSquares(s, k) == IF k > Len(s) THEN 0 ELSE s[k] * s[k] + SumSquares(s, k + 1)

\* np.var over all elements: (n * sum(x^2) - sum(x)^2) / n^2
Var(data) ==
    LET n == Len(data)
        s1 == SumSeq(data, 1)
        s2 == SumSquares(data, 1)
    IN Rat(n * s2 - s1 * s1, n * n)

\* ndarray.transpose(perm): axis k of the result is axis perm[k] of the input
TransposeShape(shape, perm) ==
    NpArray([k \in 1..Len(shape) |-> shape[perm[k] + 1]])

Transpose(arr, perm) ==
    LET n == Len(arr.shape)
        oshape == TransposeShape(arr.shape, perm)
    IN [shape |-> oshape,
        data |-> NpArray([q \in 1..Prod(oshape) |->
                   LET o == Unflatten(q - 1, oshape)
                   IN At(arr, [j \in 1..n |->
                                 o[CHOOSE k \in 1..n : perm[k] + 1 = j]])]),
        p2 |-> arr.p2]

\* ------------------------------------------------- the shared generator
Stream(i) == ((3 * (i % RngPeriod) + 1) % 7) - 3

\* scalar k of np.random.normal(0, sd, ...) drawn with the generator at r
Normal(sd, r, k) == sd * Stream(r + k)

Advance(r, n) == (r + n) % RngPeriod

SeedState(s) == s % RngPeriod

\* if self.seed is not None: np.random.seed(self.seed)
SeedGeneratorSkipped(r, s) == r

SeedGenerator(r, s) == IF s # NoSeed THEN SeedState(s) ELSE r

\* ------------------------------------ fan computation (keras _compute_fans)
\* A fan is [sq, n]: the number n, or its square root when sq is TRUE.
ComputeFans(shape, data_format) ==
    LET n == Len(shape) IN
    IF n = 2 THEN
        [fan_in |-> [sq |-> FALSE, n |-> shape[1]],
         fan_out |-> [sq |-> FALSE, n |-> shape[2]]]
    ELSE IF n \in {3, 4, 5} THEN
        IF data_format = "channels_first" THEN
            LET receptive_field_size == Prod(SubSeq(shape, 3, n)) IN
            [fan_in |-> [sq |-> FALSE, n |-> shape[2] * receptive_field_size],
             fan_out |-> [sq |-> FALSE, n |-> shape[1] * receptive_field_size]]
        ELSE
            LET receptive_field_size == Prod(SubSeq(shape, 1, n - 2)) IN
            [fan_in |-> [sq |-> FALSE, n |-> shape[n - 1] * receptive_field_size],
             fan_out |-> [sq |-> FALSE, n |-> shape[n] * receptive_field_size]]
    ELSE
        [fan_in |-> [sq |-> TRUE, n |-> Prod(shape)],
         fan_out |-> [sq |-> TRUE, n |-> Prod(shape)]]

\* variance = 2 / fan_in
TargetVariance(fan_in) == [num |-> 2, den |-> fan_in.n, sq |-> fan_in.sq]

\* --------------------------------------------------------- rank dispatch
IsSpectralRankDocstring(rank) == rank \in {3, 4}

IsSpectralRank(rank) == rank \in {3, 4, 5}

TransposeDimensions(rank) ==
    CASE rank = 3 -> <<2, 1, 0>>
      [] rank = 4 -> <<2, 3, 0, 1>>
      [] rank = 5 -> <<3, 4, 0, 1, 2>>

KernelShape(shape) == SubSeq(shape, 1, Len(shape) - 2)

StackSize(shape) == shape[Len(shape) - 1]

FiltersSize(shape) == shape[Len(shape)]

\* correct_fft(np.zeros(kernel_shape)).shape: the last axis becomes n // 2 + 1
KernelFourierShape(kernel_shape) ==
    NpArray([k \in 1..Len(kernel_shape) |->
        IF k = Len(kernel_shape) THEN (kernel_shape[k] \div 2) + 1
        ELSE kernel_shape[k]])

\* shape of correct_ifft(x, kernel_shape): rank 3 passes s[0] as n
CorrectIfftShape(rank, s) == IF rank = 3 THEN <<s[1]>> ELSE s

\* weight of frequency entry k in spatial element s of the inverse transform
IfftWeight(k, s) == IF (k * s) % 2 = 0 THEN 1 ELSE -1

RECURSIVE CorrectIfft(_, _, _)
CorrectIfft(x, k, s) ==
    IF k > Len(x) THEN 0
    ELSE x[k].val * IfftWeight(k - 1, s) + CorrectIfft(x, k + 1, s)

\* ---------------------------------------------------------- _create_basis
IsDegenerateOnCount(filters, size) == filters = 1

IsDegenerate(filters, size) == size = 1

NumBlocksCeil(filters, size) == (filters + size - 1) \div size

NumBlocks(filters, size) == (filters \div size) + 1

SampleMatrix(size, r) ==
    NpArray([i \in 1..size |->
        NpArray([j \in 1..size |-> Normal(1, r, (i - 1) * size + (j - 1))])])

\* a + a.T - np.diag(a.diagonal())
Symmetrize(a) ==
    NpArray([i \in 1..Len(a) |-> NpArray([j \in 1..Len(a) |->
        a[i][j] + a[j][i] - (IF i = j THEN a[i][i] ELSE 0)])])

\* u of np.linalg.svd(a) for block b: entry (k, j) of the orthogonal matrix u
SvdU(a, b) ==
    NpArray([k \in 1..Len(a) |-> NpArray([j \in 1..Len(a) |->
        [blk |-> b, row |-> k - 1, col |-> j - 1,
         val |-> ((a[k][j] + 2 * k + j) % 5) - 2]])])

\* u.T.tolist(): row j is column j of u
TransposeToList(u) ==
    NpArray([j \in 1..Len(u) |-> NpArray([k \in 1..Len(u) |-> u[k][j]])])

RECURSIVE BasisBlocks(_, _, _, _)
BasisBlocks(i, nbb, size, r) ==
    IF i >= nbb THEN <<>>
    ELSE LET a == Symmetrize(SampleMatrix(size, Advance(r, i * size * size)))
             u == SvdU(a, i)
         IN TransposeToList(u) \o BasisBlocks(i + 1, nbb, size, r)

\* li[:filters]
TruncateOffByOne(li, filters) ==
    SubSeq(li, 2, IF filters + 1 < Len(li) THEN filters + 1 ELSE Len(li))

Truncate(li, filters) ==
    SubSeq(li, 1, IF filters < Len(li) THEN filters ELSE Len(li))

CreateBasis(filters, size, eps, r) ==
    IF IsDegenerate(filters, size) THEN
        [p |-> NpArray([i \in 1..filters |-> NpArray([k \in 1..size |->
                  [blk |-> -1, row |-> i - 1, col |-> k - 1,
                   val |-> Normal(eps, r, (i - 1) * size + (k - 1))]])]),
         rng |-> Advance(r, filters * size),
         nbb |-> 0,
         degenerate |-> TRUE]
    ELSE
        LET nbb == NumBlocks(filters, size)
            li == BasisBlocks(0, nbb, size, r)
        IN [p |-> Truncate(li, filters),
            rng |-> Advance(r, nbb * size * size),
            nbb |-> nbb,
            degenerate |-> FALSE]

\* ------------------------------------------------- the loop over filters
\* One iteration: the basis, its reshape (the flat order of a row is kept),
\* and per input channel the inverse transform plus a fresh noise draw.
RECURSIVE FiltersLoop(_, _, _, _)
FiltersLoop(i, shape, eps, r) ==
    IF i >= FiltersSize(shape) THEN
        [init |-> <<>>, rng |-> r, create_basis |-> 0, degenerate |-> 0,
         svd |-> 0, ifft |-> 0, normal |-> 0]
    ELSE
        LET kernel_shape == KernelShape(shape)
            kernel_fourier_shape == KernelFourierShape(kernel_shape)
            stack_size == StackSize(shape)
            ksize == Prod(CorrectIfftShape(Len(shape), kernel_shape))
            basis == CreateBasis(stack_size, Prod(kernel_fourier_shape), eps, r)
            filters ==
                NpArray([c \in 1..stack_size |-> NpArray([s \in 1..ksize |->
                    CorrectIfft(basis.p[c], 1, s - 1)
                    + Normal(eps, Advance(basis.rng, (c - 1) * ksize), s - 1)])])
            rest == FiltersLoop(i + 1, shape, eps,
                                Advance(basis.rng, stack_size * ksize))
        IN [init |-> <<filters>> \o rest.init,
            rng |-> rest.rng,
            create_basis |-> 1 + rest.create_basis,
            degenerate |-> (IF basis.degenerate THEN 1 ELSE 0) + rest.degenerate,
            svd |-> basis.nbb + rest.svd,
            ifft |-> stack_size + rest.ifft,
            normal |-> (IF basis.degenerate THEN 1 ELSE basis.nbb)
                       + stack_size + rest.normal]

\* np.array(init): filters, stack, then the spatial axes
ArrayOf(init, shape) ==
    LET rank == Len(shape)
        kshape == CorrectIfftShape(rank, KernelShape(shape))
        ashape == <<FiltersSize(shape), StackSize(shape)>> \o kshape
    IN [shape |-> ashape,
        data |-> NpArray([q \in 1..Prod(ashape) |->
                   LET idx == Unflatten(q - 1, ashape)
                   IN init[idx[1] + 1][idx[2] + 1]
                          [FlatIndex(SubSeq(idx, 3, Len(idx)), kshape) + 1]])]

\* --------------------------------------------------------- _scale_filters
\* The scaled array keeps the elements and the square p2 of the common
\* factor p = sqrt(variance / c_var); p2.den = 0 is the division by zero.
ScaleFilters(filters, variance) ==
    [shape |-> filters.shape, data |-> filters.data,
     p2 |-> RatDiv(variance, Var(filters.data))]

\* variance over all elements of a scaled array
VarOfScaled(arr) == RatMul(arr.p2, Var(arr.data))

\* an element of a scaled array whose factor is infinite: 0 * inf or x * inf
ElementKind(arr, idx) ==
    IF arr.p2.den # 0 THEN "finite"
    ELSE IF At(arr, idx) = 0 THEN "nan" ELSE "inf"

\* ----------------------------------------------- the orthogonal fallback
Orthogonal(shape, r) ==
    [value |-> [shape |-> shape,
                data |-> NpArray([q \in 1..Prod(shape) |-> Stream(r + q - 1)]),
                p2 |-> Rat(1, 1)],
     rng |-> Advance(r, Prod(shape))]

\* ---------------------------------------------------------------- __call__
NoCalls ==
    [seed |-> 0, compute_fans |-> 0, fft |-> 0, create_basis |-> 0,
     degenerate |-> 0, svd |-> 0, ifft |-> 0, normal |-> 0, scale |-> 0,
     transpose |-> 0, orthogonal |-> 0]

NoRet == [path |-> "none"]

CallResult(shape, r) ==
    LET rank == Len(shape)
        r0 == SeedGenerator(r, seed)
        fans == ComputeFans(shape, image_data_format)
        variance == TargetVariance(fans.fan_in)
        seeded == IF seed # NoSeed THEN 1 ELSE 0
    IN IF IsSpectralRank(rank) THEN
           LET loop == FiltersLoop(0, shape, eps_std, r0)
               init == ArrayOf(loop.init, shape)
               scaled == ScaleFilters(init, variance)
           IN [ret |-> [path |-> "spectral", outcome |-> "array",
                        entry_seeded |-> FALSE, repeat |-> FALSE,
                        shape |-> shape,
                        variance |-> variance,
                        init |-> init,
                        out |-> Transpose(scaled, TransposeDimensions(rank)),
                        calls |-> [seed |-> seeded, compute_fans |-> 1, fft |-> 1,
                                   create_basis |-> loop.create_basis,
                                   degenerate |-> loop.degenerate,
                                   svd |-> loop.svd, ifft |-> loop.ifft,
                                   normal |-> loop.normal, scale |-> 1,
                                   transpose |-> 1, orthogonal |-> 0]],
               rng |-> loop.rng]
       ELSE
           LET o == Orthogonal(shape, r0)
           IN [ret |-> [path |-> "fallback", outcome |-> "variable",
                        entry_seeded |-> FALSE, repeat |-> FALSE,
                        shape |-> shape,
                        variance |-> variance,
                        init |-> o.value,
                        out |-> o.value,
                        calls |-> [NoCalls EXCEPT !.seed = seeded,
                                                  !.compute_fans = 1,
                                                  !.orthogonal = 1]],
               rng |-> o.rng]

\* ---------------------------------------------------------------- states
Shapes ==
    {s \in UNION {[1..n -> 1..MaxSide] : n \in 1..MaxRank} : Prod(s) <= MaxElems}

NoBasis == [filters |-> 0]

Init ==
    /\ eps_std \in EpsValues
    /\ seed \in {NoSeed} \cup SeedValues
    /\ image_data_format \in DataFormats
    /\ rng \in 0..(RngPeriod - 1)
    /\ ret = NoRet
    /\ bas = NoBasis

\* initializer(shape).  The record of the call also notes whether the
\* generator, on entry, was in the state seeding puts it in (entry_seeded)
\* and whether the caller still held the array of a call for this shape
\* (repeat).
Call(shape) ==
    LET res == CallResult(shape, rng)
    IN /\ ret' = [res.ret EXCEPT
                    !.entry_seeded = (seed # NoSeed /\ rng = SeedState(seed)),
                    !.repeat = (ret.path # "none")]
       /\ rng' = res.rng
       /\ UNCHANGED <<eps_std, seed, image_data_format, bas>>

\* the caller initialises a tensor of some shape
FirstCall(shape) == ret.path = "none" /\ Call(shape)

\* the caller initialises another tensor of the shape it has just initialised
Recall == ret.path # "none" /\ Call(ret.shape)

\* the caller lets go of the returned array: nothing of the call is retained
Release ==
    /\ ret.path # "none"
    /\ ret' = NoRet
    /\ UNCHANGED <<eps_std, seed, image_data_format, rng, bas>>

\* other code drawing one scalar from the process-wide generator
ExternalDraw ==
    /\ rng' = Advance(rng, 1)
    /\ UNCHANGED <<eps_std, seed, image_data_format, ret, bas>>

\* other code seeding the process-wide generator
ExternalSeed(s) ==
    /\ rng' = SeedState(s)
    /\ rng' # rng
    /\ UNCHANGED <<eps_std, seed, image_data_format, ret, bas>>

Next ==
    \/ \E shape \in Shapes : FirstCall(shape)
    \/ Recall
    \/ Release
    \/ ExternalDraw
    \/ \E s \in SeedValues : ExternalSeed(s)

Spec == Init /\ [][Next]_vars

\* ------------------------------------- _create_basis called on its own
InitBasis ==
    /\ eps_std \in EpsValues
    /\ seed = NoSeed
    /\ image_data_format = "channels_last"
    /\ rng \in 0..(RngPeriod - 1)
    /\ ret = NoRet
    /\ bas = NoBasis

CreateBasisCall(filters, size) ==
    LET b == CreateBasis(filters, size, eps_std, rng)
    IN /\ bas' = [filters |-> filters, size |-> size, p |-> b.p, nbb |-> b.nbb,
                  degenerate |-> b.degenerate]
       /\ rng' = b.rng
       /\ UNCHANGED <<eps_std, seed, image_data_format, ret>>

NextBasis ==
    \/ \E filters \in 1..MaxCount, size \in 1..MaxBasisDim :
           CreateBasisCall(filters, size)
    \/ ExternalDraw

SpecBasis == InitBasis /\ [][NextBasis]_vars

\* ================================================================ claims
Spectral == ret.path = "spectral"

\* a spectral call under a configuration with eps_std > 0
SpectralValid == Spectral /\ eps_std > 0

SpatialAllOne(shape) == \A k \in 1..(Len(shape) - 2) : shape[k] = 1

\* 2 / (product of the spatial dimensions times in_channels), with the
\* positions the rank dispatcher unpacks
HeVariance(shape) == Rat(2, Prod(KernelShape(shape)) * StackSize(shape))

\* C1: on the spectral path (rank 3, 4, 5) the returned array has exactly
\* the shape that was asked for.
C1_OutputShapeEqualsInput ==
    SpectralValid => ret.out.shape = ret.shape

\* C2: the returned array holds at [s..., c, f] the rescaled element
\* [f, c, s...] of the assembled bank, for every f, c and spatial index.
C2_LayoutSpatialChannelFilter ==
    SpectralValid =>
        \A idx \in Indices(ret.init.shape) :
            LET o == SubSeq(idx, 3, Len(idx)) \o <<idx[2], idx[1]>>
            IN /\ Len(ret.out.shape) = Len(o)
               /\ \A k \in 1..Len(o) : o[k] < ret.out.shape[k]
               /\ At(ret.out, o) = At(ret.init, idx)
               /\ ret.out.p2 = ScaleFilters(ret.init, ret.variance).p2

\* C3: with a seed configured, a call for the shape of the previous call
\* returns the same array as the previous call, whatever became of the shared
\* generator in between.
C3_SeededCallsAgree ==
    [][(/\ seed # NoSeed
        /\ ret.path # "none"
        /\ ret'.path # "none"
        /\ ret'.shape = ret.shape)
       => (ret'.out = ret.out /\ ret'.outcome = ret.outcome)]_vars

\* C3 witness: a seeded spectral call was repeated for the same shape, entered
\* with the generator away from the state seeding puts it in.
C3_Witness ==
    /\ seed # NoSeed
    /\ Spectral
    /\ ret.repeat
    /\ ~ret.entry_seeded
    /\ eps_std # 0

\* C4: with in_channels > 1 (and a bank whose variance is not zero) the
\* variance over all elements of the returned bank is 2 / fan_in.
C4_VarianceIsHeTarget ==
    (/\ SpectralValid
     /\ StackSize(ret.shape) > 1
     /\ Var(ret.init.data).num # 0)
    => RatEq(VarOfScaled(ret.out), HeVariance(ret.shape))

C6_TargetVarianceIsHe ==
    SpectralValid => RatEq(ret.variance, HeVariance(ret.shape))

\* C7: a bank of zero variance (eps_std = 0 and only degenerate basis calls,
\* so every element is 0) ends in DegenerateScalingError, and no array of
\* NaN or infinite elements is returned.
C7_ZeroVarianceSignalled ==
    (/\ Spectral
     /\ eps_std = 0
     /\ ret.calls.degenerate = ret.calls.create_basis
     /\ Var(ret.init.data).num = 0)
    => /\ ret.outcome = "DegenerateScalingError"
       /\ \A idx \in Indices(ret.out.shape) :
             ElementKind(ret.out, idx) = "finite"

\* C8 (as stated): with in_channels = 1 every basis generator call takes the
\* degenerate branch and nothing is sampled or decomposed.
C8_InChannelsOneDegenerate ==
    (SpectralValid /\ StackSize(ret.shape) = 1)
    => (ret.calls.degenerate = ret.calls.create_basis /\ ret.calls.svd = 0)

\* C8 (amended): the degenerate branch is taken by every basis generator call
\* exactly when all spatial dimensions are 1 (dim = 1), whatever in_channels
\* is; with a spatial dimension of 2 or more every call samples and
\* decomposes, also with in_channels = 1.
C8_SpatialOneDegenerate ==
    Spectral =>
        IF SpatialAllOne(ret.shape) THEN
            /\ ret.calls.create_basis = FiltersSize(ret.shape)
            /\ ret.calls.degenerate = ret.calls.create_basis
            /\ ret.calls.svd = 0
        ELSE
            /\ ret.calls.create_basis = FiltersSize(ret.shape)
            /\ ret.calls.degenerate = 0
            /\ ret.calls.svd >= ret.calls.create_basis

\* C8 witness: a shape with all spatial dimensions 1 and in_channels = 2 took
\* the degenerate branch in every basis generator call.
C8_Witness ==
    /\ Spectral
    /\ SpatialAllOne(ret.shape)
    /\ StackSize(ret.shape) = 2
    /\ ret.calls.degenerate = FiltersSize(ret.shape)

BasisCalled == bas.filters >= 1 /\ bas.size >= 2

RowsAreCountByDim ==
    /\ Len(bas.p) = bas.filters
    /\ \A i \in 1..Len(bas.p) : Len(bas.p[i]) = bas.size

\* C9 (as stated): for dim >= 2, ceil(count / dim) matrices are sampled and
\* decomposed, and exactly count rows of length dim are returned.
C9_CeilBlocks ==
    BasisCalled =>
        /\ bas.nbb = (bas.filters + bas.size - 1) \div bas.size
        /\ RowsAreCountByDim

\* C9 (amended): for dim >= 2, floor(count / dim) + 1 matrices are sampled and
\* decomposed (one more than ceil(count / dim) when count is a multiple of
\* dim), and exactly count rows of length dim are returned.
C9_FloorPlusOneBlocks ==
    BasisCalled =>
        /\ bas.nbb = (bas.filters \div bas.size) + 1
        /\ ~bas.degenerate
        /\ RowsAreCountByDim

\* C9 witness: count is an exact multiple of dim.
C9_Witness ==
    /\ BasisCalled
    /\ bas.filters = 2 * bas.size

\* C10: for count <= dim, dim >= 2, the rows are count distinct columns of u
\* of one single decomposition block.
C10_RowsFromOneBlock ==
    (BasisCalled /\ bas.filters <= bas.size) =>
        /\ Len(bas.p) = bas.filters
        /\ \A i \in 1..Len(bas.p) :
              /\ Len(bas.p[i]) = bas.size
              /\ \A k \in 1..Len(bas.p[i]) :
                    /\ bas.p[i][k].blk = bas.p[1][1].blk
                    /\ bas.p[i][k].blk >= 0
                    /\ bas.p[i][k].row = k - 1
                    /\ bas.p[i][k].col = bas.p[i][1].col
        /\ \A i, j \in 1..Len(bas.p) :
              i # j => bas.p[i][1].col # bas.p[j][1].col

\* C10 witness: count = dim, where a second block is sampled as well.
C10_Witness ==
    /\ BasisCalled
    /\ bas.filters = bas.size
    /\ bas.nbb = 2

====
